---------------------------- MODULE Spec2Model ----------------------------
(***************************************************************************)
(* A model of the Code Lens rule-based analysis and scoring engine         *)
(* (src/server/services/codeLensAgent.py): per-file scanning and debt      *)
(* scoring, and the file -> project aggregation.                           *)
(*                                                                         *)
(* File content is text.  The model draws content from sequences of        *)
(* concrete source lines (the set Lines below); the value of a content is  *)
(* those lines joined by "\n", so a content is exactly what                *)
(* content.split('\n') returns.  What each regular expression of the       *)
(* source matches on each of these lines is tabulated from the regular     *)
(* expressions themselves (SecurityRuleMatches, SyncIOMatches, ...);       *)
(* everything built on the matches - match order, line numbers, counting,  *)
(* weighting, clamping, rating, aggregation - is computed as the code      *)
(* computes it.                                                            *)
(*                                                                         *)
(* Numbers: Python floats that are not integers are kept exact, as a       *)
(* fraction [num, den] or as an integer number of tenths after round(x, 1).*)
(***************************************************************************)
EXTENDS Integers, Sequences, FiniteSets, TLC

VARIABLES
    files,           \* project_data['files']: sequence of [name, content]
    debt_indicators, \* what _calculate_technical_debt last returned, or NoReport
    project_report,  \* what analyze_project_structure last returned, or NoReport
    agent,           \* the CodeLensAgent object: NotConstructed, or its attributes
    file_call,       \* the arguments and provider behaviour of the last
                     \* analyze_code_file call, or NoReport
    file_report,     \* what that call returned, or NoReport
    first_report,    \* what the same call returned before it was repeated, or
                     \* NoReport
    scanner,         \* the ExcelFieldScanner object: its field_mappings
    source_files,    \* the source files handed to the scanner: sequence of
                     \* [relativePath, content]
    scan_results     \* what scan_source_files last returned, or NoReport

\* The variables of the field scanner.
excel == <<scanner, source_files, scan_results>>

\* The variables of the code analysis.
codeLens == <<files, debt_indicators, project_report, agent, file_call, file_report, first_report>>

vars == <<codeLens, excel>>

NoReport == [none |-> TRUE]

(***************************************************************************)
(* Bounds of the model.                                                    *)
(***************************************************************************)
MaxFiles == 3     \* files in a project
MaxLines == 3     \* source lines (elements of Lines) in a project, all files together
ManyFiles == 21   \* files in a project handed over as a whole
MaxMappings == 3     \* rows of the sheet
MaxSourceFiles == 2  \* source files handed to the field scanner
MaxSourceLines == 3  \* lines of the source files, all files together

Min(a, b) == IF a < b THEN a ELSE b
Max(a, b) == IF a > b THEN a ELSE b

RECURSIVE SumSeq(_)
SumSeq(s) == IF s = <<>> THEN 0 ELSE Head(s) + SumSeq(Tail(s))

RECURSIVE FlattenSeq(_)
FlattenSeq(ss) == IF ss = <<>> THEN <<>> ELSE Head(ss) \o FlattenSeq(Tail(ss))

(***************************************************************************)
(* The source lines contents are drawn from.  Each name stands for the     *)
(* literal text to its right.  A "pad" is a run of empty lines (the text   *)
(* "\n" repeated NLines - 1 times): the only elements that hold more than  *)
(* one line.                                                               *)
(*                                                                         *)
(*   empty     (the empty string)                                          *)
(*   ws        "    "                                                      *)
(*   code      x = 1                                                       *)
(*   comment   # note                                                      *)
(*   cred3     password = "abc123"; secret = "xyz"; api_key = "k1"         *)
(*   sqli      db.execute("SELECT * FROM t WHERE id=" + uid + "")          *)
(*   xss       el.innerHTML = a + b                                        *)
(*   rand      r = Math.random()                                           *)
(*   sync4     a = requests.get(u); b = requests.get(v);                   *)
(*                 c = requests.get(w); d = requests.get(z)   (one line)   *)
(*   for       for i in items:                                             *)
(*   query     "    db.query(i)"                                           *)
(*   todo      # TODO: fix                                                 *)
(*   magic     n = 1000                                                    *)
(*   deep      "                    y = 2"          (20 leading blanks)    *)
(*   dupl      result = compute_value(alpha, beta)                         *)
(*   idupl     "    result = compute_value(alpha, beta)"                   *)
(*   debt      "                    # FIXME sizes 100 200 300 400 500 600  *)
(*                 700"                    (one line, 20 leading blanks)   *)
(*   debt30    "                    # TODO sizes 100 200 300 400 500"      *)
(*   def       def f(x):                                                   *)
(*   class     class Foo:                                                  *)
(*   import    import os                                                   *)
(*   bignum    the digit 7, 150 times                                      *)
(*   longcred  password = "aaa...a"                  (the letter a 120 times)*)
(*   notify    self.notify(observer)                                       *)
(*   pad20, pad999, pad9999, pad99999      20, 999, 9999, 99999 empty lines*)
(***************************************************************************)
Pads == {"pad20", "pad999", "pad9999", "pad99999"}

Lines == {"empty", "ws", "code", "comment", "cred3", "sqli", "xss", "rand",
          "sync4", "for", "query", "todo", "magic", "deep", "dupl", "idupl",
          "debt", "debt30",
          "def", "class", "import", "bignum", "longcred", "notify"} \cup Pads

\* Number of text lines an element of Lines holds.
NLines(l) ==
    CASE l = "pad20"    -> 20
      [] l = "pad999"   -> 999
      [] l = "pad9999"  -> 9999
      [] l = "pad99999" -> 99999
      [] OTHER          -> 1

\* line == '' for every text line of l
IsEmptyLine(l) == l = "empty" \/ l \in Pads

\* not line.strip()
IsBlank(l) == IsEmptyLine(l) \/ l = "ws"

\* len(content.split('\n'))
LineCount(content) == SumSeq([i \in 1..Len(content) |-> NLines(content[i])])

\* content == '' : the one content that is falsy in `if content:`
IsEmptyContent(content) == content = <<"empty">>

\* content[:match.start()].count('\n') + 1 for a match that starts in the
\* element at index i
LineNumber(content, i) == SumSeq([j \in 1..(i - 1) |-> NLines(content[j])]) + 1


(***************************************************************************)
(* Pattern registries.  A rule's regular expression is represented by what *)
(* it matches on the lines of Lines; name and severity are the source's.   *)
(* (description and suggestion are constant texts chosen by the rule name  *)
(* and are not carried.)                                                   *)
(***************************************************************************)
_load_vulnerability_patterns ==
    << [name |-> "SQL Injection",         severity |-> "HIGH"],
       [name |-> "XSS Vulnerability",     severity |-> "MEDIUM"],
       [name |-> "Hardcoded Credentials", severity |-> "HIGH"],
       [name |-> "Insecure Random",       severity |-> "LOW"] >>

_load_performance_patterns ==
    << [name |-> "N+1 Query",      severity |-> "MEDIUM"],
       [name |-> "Nested Loops",   severity |-> "LOW"],
       [name |-> "Synchronous IO", severity |-> "MEDIUM"] >>

\* Number of (non-overlapping, left to right) matches of a vulnerability
\* rule's pattern inside line l.  No pattern matches across two lines of Lines.
SecurityRuleMatches(rule, l) ==
    CASE rule = "SQL Injection"         /\ l = "sqli"  -> 1
      [] rule = "XSS Vulnerability"     /\ l = "xss"   -> 1
      [] rule = "Hardcoded Credentials" /\ l = "cred3" -> 3
      [] rule = "Hardcoded Credentials" /\ l = "longcred" -> 1
      [] rule = "Insecure Random"       /\ l = "rand"  -> 1
      [] OTHER -> 0

\* (requests\.get|urllib\.urlopen)\(  inside line l
SyncIOMatches(l) == IF l = "sync4" THEN 4 ELSE 0

\* for\s+.*in.*:\s*  reaching the end of line l
IsForLine(l) == l = "for"

\* what must follow "\n\s*" for the two-line rules:  .*\.query\(  and  for\s+.*in.*:
SecondLineMatches(rule, l) ==
    CASE rule = "N+1 Query"    -> l = "query"
      [] rule = "Nested Loops" -> l = "for"
      [] OTHER -> FALSE

\* "\s*\n\s*" runs over blank lines: the line that must match is the first
\* non-blank one after index i (0 when there is none).
NextNonBlank(content, i) ==
    LET later == {j \in (i + 1)..Len(content) : ~IsBlank(content[j])}
    IN  IF later = {} THEN 0 ELSE CHOOSE j \in later : \A k \in later : j <= k

\* re.finditer for a two-line rule: indexes where a match starts, scanning
\* from index i; the search resumes after the end of each match.
RECURSIVE TwoLineMatchStarts(_, _, _)
TwoLineMatchStarts(rule, content, i) ==
    IF i > Len(content) THEN <<>>
    ELSE LET j == NextNonBlank(content, i)
         IN  IF IsForLine(content[i]) /\ j # 0 /\ SecondLineMatches(rule, content[j])
             THEN <<i>> \o TwoLineMatchStarts(rule, content, j + 1)
             ELSE TwoLineMatchStarts(rule, content, i + 1)

\* m copies of x
Repeat(x, m) == [k \in 1..m |-> x]

\* len(match.group()) for the k-th match of a security rule inside line l
MatchedCodeLength(rule, l, k) ==
    CASE rule = "SQL Injection"         /\ l = "sqli"     -> 46
      [] rule = "XSS Vulnerability"     /\ l = "xss"      -> 15
      [] rule = "Hardcoded Credentials" /\ l = "cred3"    -> (IF k = 1 THEN 19 ELSE 14)
      [] rule = "Hardcoded Credentials" /\ l = "longcred" -> 133
      [] rule = "Insecure Random"       /\ l = "rand"     -> 13
      [] OTHER -> 0

\* (matched_code carries the length of match.group(); description is not carried)
_scan_security_vulnerabilities(content) ==
    LET rules == _load_vulnerability_patterns
        OfRule(r) ==
            FlattenSeq([i \in 1..Len(content) |->
                [k \in 1..SecurityRuleMatches(rules[r].name, content[i]) |->
                    [name         |-> rules[r].name,
                     severity     |-> rules[r].severity,
                     line_number  |-> LineNumber(content, i),
                     matched_code |-> MatchedCodeLength(rules[r].name, content[i], k)]]])
    IN  FlattenSeq([r \in 1..Len(rules) |-> OfRule(r)])

_analyze_performance_patterns(content) ==
    LET rules == _load_performance_patterns
        Issue(r, i) == [name        |-> rules[r].name,
                        severity    |-> rules[r].severity,
                        line_number |-> LineNumber(content, i)]
        OfRule(r) ==
            IF rules[r].name = "Synchronous IO"
            THEN FlattenSeq([i \in 1..Len(content) |->
                     Repeat(Issue(r, i), SyncIOMatches(content[i]))])
            ELSE LET starts == TwoLineMatchStarts(rules[r].name, content, 1)
                 IN  [k \in 1..Len(starts) |-> Issue(r, starts[k])]
    IN  FlattenSeq([r \in 1..Len(rules) |-> OfRule(r)])

(***************************************************************************)
(* Technical debt (Debt Scorer).                                           *)
(***************************************************************************)
\* #.*TODO|#.*FIXME|#.*HACK (re.IGNORECASE) inside line l
TodoMatches(l) == IF l \in {"todo", "debt", "debt30"} THEN 1 ELSE 0

\* \b\d{3,}\b inside line l
MagicNumberMatches(l) ==
    CASE l = "magic" -> 1
      [] l = "debt"  -> 7
      [] l = "debt30" -> 5
      [] l = "bignum" -> 1
      [] OTHER       -> 0

\* len(line) - len(line.lstrip()) for a text line of l
LeadingWhitespace(l) ==
    CASE l \in {"deep", "debt", "debt30"} -> 20
      [] l \in {"query", "ws", "idupl"}  -> 4
      [] OTHER                  -> 0

\* len(line.strip())
StrippedLength(l) ==
    CASE l = "code"    -> 5
      [] l = "comment" -> 6
      [] l = "cred3"   -> 51
      [] l = "sqli"    -> 50
      [] l = "xss"     -> 20
      [] l = "rand"    -> 17
      [] l = "sync4"   -> 82
      [] l = "for"     -> 15
      [] l = "query"   -> 11
      [] l = "todo"    -> 11
      [] l = "magic"   -> 8
      [] l = "deep"    -> 5
      [] l = "dupl"    -> 35
      [] l = "idupl"   -> 35
      [] l = "debt"    -> 41
      [] l = "debt30"  -> 32
      [] l = "def"     -> 9
      [] l = "class"   -> 10
      [] l = "import"  -> 9
      [] l = "bignum"  -> 150
      [] l = "longcred" -> 133
      [] l = "notify"  -> 21
      [] OTHER         -> 0

\* line.strip() for a line that is not blank: the line whose text it is
Stripped(l) == IF l = "idupl" THEN "dupl" ELSE l

\* A variant that compares the lines as they are, indentation included.
UnstrippedDuplication(content) ==
    LET lines == SelectSeq(content, LAMBDA l : ~IsBlank(l))
        count(l) == Cardinality({k \in 1..Len(lines) : lines[k] = l})
        duplicates == Cardinality({k \in 1..Len(lines) :
                          StrippedLength(lines[k]) > 20 /\ count(lines[k]) > 1})
    IN  duplicates \div 2

_detect_code_duplication(content) ==
    LET \* [line.strip() for line in content.split('\n') if line.strip()]
        kept  == SelectSeq(content, LAMBDA l : ~IsBlank(l))
        lines == [k \in 1..Len(kept) |-> Stripped(kept[k])]
        count(l) == Cardinality({k \in 1..Len(lines) : lines[k] = l})
        duplicates == Cardinality({k \in 1..Len(lines) :
                          StrippedLength(lines[k]) > 20 /\ count(lines[k]) > 1})
    IN  duplicates \div 2

_count_deep_nesting(content) ==
    SumSeq([i \in 1..Len(content) |->
        IF LeadingWhitespace(content[i]) \div 4 > 4 THEN NLines(content[i]) ELSE 0])

\* def\s+\w+\s*\([^)]*\):\s*  reaching the end of line l
IsDefLine(l) == l = "def"

\* Empty text lines of element j that end in a "\n" (the last line of the
\* content does not): the places where a repetition of (?:\n(?:.*\n)*?)
\* after the first can start.
EmptyNonLast(content, j) ==
    IF IsEmptyLine(content[j])
    THEN NLines(content[j]) - (IF j = Len(content) THEN 1 ELSE 0)
    ELSE 0

EmptiesAfter(content, i) ==
    SumSeq([k \in 1..(Len(content) - i) |-> EmptyNonLast(content, i + k)])

\* Last index of the run of blank elements that follows index i (i if none):
\* what the greedy \s* after "):" runs over.
RECURSIVE LastBlankAfter(_, _)
LastBlankAfter(content, i) ==
    IF i < Len(content) /\ IsBlank(content[i + 1])
    THEN LastBlankAfter(content, i + 1) ELSE i

\* Index of the element in which the n-th empty "\n"-ended line after index b lies.
RECURSIVE NthEmptyAfter(_, _, _)
NthEmptyAfter(content, b, n) ==
    IF EmptyNonLast(content, b + 1) >= n THEN b + 1
    ELSE NthEmptyAfter(content, b + 1, n - EmptyNonLast(content, b + 1))

\* Last index of the run of empty elements starting at index e.
RECURSIVE LastEmptyFrom(_, _)
LastEmptyFrom(content, e) ==
    IF e < Len(content) /\ IsEmptyLine(content[e + 1])
    THEN LastEmptyFrom(content, e + 1) ELSE e

\* len(re.findall(r'def\s+\w+\s*\([^)]*\):\s*(?:\n(?:.*\n)*?){20,}', content)),
\* scanning from index i.  The group must be repeated 20 times; the first
\* repetition starts at a "\n" of the blank run after "):" (the greedy \s*
\* leaves the last one that still lets the match succeed), every later one at
\* an empty line, the lazy (?:.*\n)*? skipping the lines in between; past 20
\* the greedy {20,} goes on only over directly following empty lines.
RECURSIVE LongFunctionMatches(_, _)
LongFunctionMatches(content, i) ==
    IF i > Len(content) THEN 0
    ELSE IF ~IsDefLine(content[i]) THEN LongFunctionMatches(content, i + 1)
    ELSE IF EmptiesAfter(content, i) < 19 THEN 0
    ELSE LET b == LastBlankAfter(content, i)
         IN  IF EmptiesAfter(content, b) < 19 THEN 1
             ELSE 1 + LongFunctionMatches(content,
                          LastEmptyFrom(content, NthEmptyAfter(content, b, 19)) + 1)

\* Variant of _assess_debt_level: every threshold belongs to the lower bucket.
InclusiveDebtLevel(debt_score) ==
    IF debt_score <= 20 THEN "LOW"
    ELSE IF debt_score <= 50 THEN "MEDIUM"
    ELSE IF debt_score <= 80 THEN "HIGH"
    ELSE "CRITICAL"

_assess_debt_level(debt_score) ==
    IF debt_score < 20 THEN "LOW"
    ELSE IF debt_score < 50 THEN "MEDIUM"
    ELSE IF debt_score < 80 THEN "HIGH"
    ELSE "CRITICAL"

\* Variant of WeightedDebtScore: the weighted sum without the cap at 100.
UncappedDebtScore(todo_comments, code_duplication, long_functions, magic_numbers, deep_nesting) ==
    todo_comments * 5 + code_duplication * 10 + long_functions * 8
    + magic_numbers * 2 + deep_nesting * 15

\* debt_score = min(100, ...weighted sum of the five indicators...)
WeightedDebtScore(todo_comments, code_duplication, long_functions, magic_numbers, deep_nesting) ==
    Min(100, todo_comments * 5 + code_duplication * 10 + long_functions * 8
             + magic_numbers * 2 + deep_nesting * 15)

_calculate_technical_debt(content) ==
    LET todo_comments    == SumSeq([i \in 1..Len(content) |-> TodoMatches(content[i])])
        code_duplication == _detect_code_duplication(content)
        long_functions   == LongFunctionMatches(content, 1)
        magic_numbers    == SumSeq([i \in 1..Len(content) |-> MagicNumberMatches(content[i])])
        deep_nesting     == _count_deep_nesting(content)
        debt_score       == WeightedDebtScore(todo_comments, code_duplication,
                                              long_functions, magic_numbers, deep_nesting)
    IN  [todo_comments    |-> todo_comments,
         code_duplication |-> code_duplication,
         long_functions   |-> long_functions,
         magic_numbers    |-> magic_numbers,
         deep_nesting     |-> deep_nesting,
         overall_score    |-> debt_score,
         assessment       |-> _assess_debt_level(debt_score)]

(***************************************************************************)
(* Metrics Calculator (the external complexity provider is not modelled:   *)
(* its fields are absent).                                                 *)
(***************************************************************************)
\* line.strip().startswith('#')
IsCommentLine(l) == l \in {"comment", "todo", "debt", "debt30"}

\* def\s+\w+\s*\(  ,  class\s+\w+  ,  (import\s+|from\s+.*\s+import)  inside line l
FunctionMatches(l) == IF l = "def" THEN 1 ELSE 0
ClassMatches(l)    == IF l = "class" THEN 1 ELSE 0
ImportMatches(l)   == IF l = "import" THEN 1 ELSE 0

\* A variant that takes every line that is not a comment for code.
IsNotCommentLine(l) == ~IsCommentLine(l)

\* line.strip() and not line.strip().startswith('#')
IsCodeLine(l) == ~IsBlank(l) /\ ~IsCommentLine(l)

_calculate_code_metrics(content) ==
    LET Count(P(_)) == SumSeq([i \in 1..Len(content) |->
                           IF P(content[i]) THEN NLines(content[i]) ELSE 0])
        code(l)    == IsCodeLine(l)
        comment(l) == IsCommentLine(l)
        blank(l)   == IsBlank(l)
    IN  [total_lines     |-> LineCount(content),
         code_lines      |-> Count(code),
         comment_lines   |-> Count(comment),
         blank_lines     |-> Count(blank),
         functions_count |-> SumSeq([i \in 1..Len(content) |-> FunctionMatches(content[i])]),
         classes_count   |-> SumSeq([i \in 1..Len(content) |-> ClassMatches(content[i])]),
         imports_count   |-> SumSeq([i \in 1..Len(content) |-> ImportMatches(content[i])])]

(***************************************************************************)
(* Project Aggregator.  A file name is one of FileNames; what the code     *)
(* reads off a name (its extension, the substrings of its lower-case form) *)
(* is tabulated.                                                           *)
(***************************************************************************)
FileNames == {"app.py", "index.js", "UserController.java", "UserModel.java",
              "UserView.java", "ModelViewController.java", "user_service.py",
              "api.ts", "api_service.py", "ApiClient.js",
              "UserRepository.cs", "README"}

\* type_mapping.get(os.path.splitext(file_path)[1].lower(), 'Unknown')
_detect_file_type(file_path) ==
    CASE file_path \in {"app.py", "user_service.py", "api_service.py"} -> "Python"
      [] file_path \in {"index.js", "ApiClient.js"} -> "JavaScript"
      [] file_path \in {"UserController.java", "UserModel.java", "UserView.java",
                        "ModelViewController.java"} -> "Java"
      [] file_path = "api.ts" -> "TypeScript"
      [] file_path = "UserRepository.cs" -> "C#"
      [] OTHER -> "Unknown"

\* word in name.lower()
NameContains(name, word) ==
    CASE word = "controller" -> name \in {"UserController.java", "ModelViewController.java"}
      [] word = "model"      -> name \in {"UserModel.java", "ModelViewController.java"}
      [] word = "view"       -> name \in {"UserView.java", "ModelViewController.java"}
      [] word = "service"    -> name \in {"user_service.py", "api_service.py"}
      [] word = "api"        -> name \in {"api.ts", "api_service.py", "ApiClient.js"}
      [] word = "repository" -> name = "UserRepository.cs"
      [] OTHER -> FALSE

\* A variant whose buckets include their upper threshold.
InclusiveProjectSize(total_lines) ==
    IF total_lines <= 1000 THEN "Small"
    ELSE IF total_lines <= 10000 THEN "Medium"
    ELSE IF total_lines <= 100000 THEN "Large"
    ELSE "Very Large"

_categorize_project_size(total_lines) ==
    IF total_lines < 1000 THEN "Small"
    ELSE IF total_lines < 10000 THEN "Medium"
    ELSE IF total_lines < 100000 THEN "Large"
    ELSE "Very Large"

\* A variant that keeps the last key of the greatest count.
LastMaximumLanguage(keys, language_count) ==
    keys[CHOOSE k \in 1..Len(keys) :
            /\ \A m \in 1..Len(keys) :
                   language_count[keys[m]] <= language_count[keys[k]]
            /\ \A m \in (k + 1)..Len(keys) :
                   language_count[keys[m]] < language_count[keys[k]]]

\* max(language_count, key=language_count.get): the first key, in insertion
\* order, whose count no other key exceeds
PrimaryLanguage(keys, language_count) ==
    keys[CHOOSE k \in 1..Len(keys) :
            /\ \A m \in 1..Len(keys) :
                   language_count[keys[m]] <= language_count[keys[k]]
            /\ \A m \in 1..(k - 1) :
                   language_count[keys[m]] < language_count[keys[k]]]

_analyze_project_overview(project_data) ==
    LET fs == project_data.files
        types == [i \in 1..Len(fs) |-> _detect_file_type(fs[i].name)]
        \* keys of language_count, in insertion order
        first == {i \in 1..Len(fs) : \A j \in 1..(i - 1) : types[j] # types[i]}
        keys == [k \in 1..Cardinality(first) |->
                    types[CHOOSE i \in first :
                              Cardinality({j \in first : j < i}) = k - 1]]
        language_count == [t \in {types[i] : i \in 1..Len(fs)} |->
                              Cardinality({i \in 1..Len(fs) : types[i] = t})]
        total_lines == SumSeq([i \in 1..Len(fs) |-> LineCount(fs[i].content)])
        primary_language ==
            IF Len(keys) = 0 THEN "Unknown" ELSE PrimaryLanguage(keys, language_count)
    IN  [total_files          |-> Len(fs),
         total_lines_of_code  |-> total_lines,
         primary_language     |-> primary_language,
         language_distribution |-> language_count,
         project_size         |-> _categorize_project_size(total_lines),
         file_types           |-> keys]

\* len([name for name in file_names if word in name.lower()])
NamesContaining(fs, word) ==
    Cardinality({i \in 1..Len(fs) : NameContains(fs[i].name, word)})

\* A variant that is satisfied by two names containing 'api'.
MicroservicesAtTwoApiNames(fs) ==
    /\ \E i \in 1..Len(fs) : NameContains(fs[i].name, "service")
    /\ NamesContaining(fs, "api") >= 2

\* The condition of the Microservices entry.
MicroservicesDetected(fs) ==
    /\ \E i \in 1..Len(fs) : NameContains(fs[i].name, "service")
    /\ NamesContaining(fs, "api") > 2

_detect_architecture_patterns(project_data) ==
    LET fs == project_data.files
        any(word) == \E i \in 1..Len(fs) : NameContains(fs[i].name, word)
        mvc == IF any("controller") /\ any("model") /\ any("view")
               THEN <<[name |-> "Model-View-Controller (MVC)", confidence10 |-> 8]>>
               ELSE <<>>
        microservices ==
               IF MicroservicesDetected(fs)
               THEN <<[name |-> "Microservices Architecture", confidence10 |-> 7]>>
               ELSE <<>>
        repository ==
               IF any("repository")
               THEN <<[name |-> "Repository Pattern", confidence10 |-> 9]>>
               ELSE <<>>
    IN  mvc \o microservices \o repository

(***************************************************************************)
(* Exact arithmetic for the floats of the aggregation.  A quotient is kept *)
(* as [num, den]; round(x, 1) yields an integer number of tenths.  Python  *)
(* rounds the binary float half-to-even; the floats rounded here differ    *)
(* from k/10 + 1/20 by far more than the float error unless they are       *)
(* exactly that, which (total / file_count, and the 0.4 multiple of it)    *)
(* happens only for quarters, which floats hold exactly, as long as there  *)
(* are fewer than 8 files, or the number of files is not a multiple of 4   *)
(* (a tie is an odd number of twentieths).                                 *)
(***************************************************************************)
RoundHalfEven(num, den) ==
    LET q == num \div den
        r == num % den
    IN  IF 2 * r < den THEN q
        ELSE IF 2 * r > den THEN q + 1
        ELSE IF q % 2 = 0 THEN q ELSE q + 1

\* round(num / den, 1), in tenths
RoundTenths(num, den) == RoundHalfEven(10 * num, den)

\* A variant whose buckets exclude their lower threshold.
ExclusiveQualityRating(num, den) ==
    IF num > 80 * den THEN "Excellent"
    ELSE IF num > 60 * den THEN "Good"
    ELSE IF num > 40 * den THEN "Fair"
    ELSE "Poor"

\* _rate_quality(score) for score = num / den
_rate_quality(num, den) ==
    IF num >= 80 * den THEN "Excellent"
    ELSE IF num >= 60 * den THEN "Good"
    ELSE IF num >= 40 * den THEN "Fair"
    ELSE "Poor"

\* Variant of SecurityPenalty: the penalty without its cap at 30.
UncappedSecurityPenalty(security_issues_count) == security_issues_count * 5

\* security_penalty = min(30, security_issues_count * 5)
SecurityPenalty(security_issues_count) == Min(30, security_issues_count * 5)

\* Variant of PerformancePenalty: the penalty without its cap at 20.
UncappedPerformancePenalty(performance_issues_count) == performance_issues_count * 3

\* performance_penalty = min(20, performance_issues_count * 3)
PerformancePenalty(performance_issues_count) == Min(20, performance_issues_count * 3)

\* returns round(final_score, 1), in tenths
_calculate_overall_quality_score(metrics) ==
    LET \* metrics.get('average_technical_debt', 0)
        avg == IF "average_technical_debt" \in DOMAIN metrics
               THEN metrics.average_technical_debt
               ELSE [num |-> 0, den |-> 1]
        base_score == 100
        security_penalty    == SecurityPenalty(metrics.security_issues_count)
        performance_penalty == PerformancePenalty(metrics.performance_issues_count)
        \* min(40, avg * 0.4) = debt_penalty_num / (5 * avg.den)
        debt_penalty_num == Min(40 * 5 * avg.den, 2 * avg.num)
        final_score_num  == Max(0, (base_score - security_penalty - performance_penalty)
                                       * 5 * avg.den - debt_penalty_num)
    IN  RoundTenths(final_score_num, 5 * avg.den)

\* Variant of Analyzed: files with empty content are aggregated as well.
AllFilesAnalyzed(fs) == fs

\* The files that pass `if content:` in the aggregation loops.
Analyzed(fs) == SelectSeq(fs, LAMBDA f : ~IsEmptyContent(f.content))

_summarize_code_quality(project_data) ==
    LET fs == Analyzed(project_data.files)
        file_count == Len(fs)
        Sum(F(_)) == SumSeq([i \in 1..Len(fs) |-> F(fs[i].content)])
        functions(c)   == _calculate_code_metrics(c).functions_count
        classes(c)     == _calculate_code_metrics(c).classes_count
        security(c)    == Len(_scan_security_vulnerabilities(c))
        performance(c) == Len(_analyze_performance_patterns(c))
        debt(c)        == _calculate_technical_debt(c).overall_score
        totals == [total_functions          |-> Sum(functions),
                   total_classes            |-> Sum(classes),
                   average_complexity       |-> 0,
                   security_issues_count    |-> Sum(security),
                   performance_issues_count |-> Sum(performance),
                   technical_debt_score     |-> Sum(debt)]
        total_metrics ==
            IF file_count > 0
            THEN totals @@ [average_technical_debt |->
                               [num |-> totals.technical_debt_score, den |-> file_count]]
            ELSE totals
        quality_score == _calculate_overall_quality_score(total_metrics)
    IN  total_metrics @@ [analyzed_files        |-> file_count,
                          overall_quality_score |-> quality_score,
                          quality_rating        |-> _rate_quality(quality_score, 10)]

\* issue['file'] = file_info.get('name', 'unknown')
WithFile(issues, name) ==
    [k \in 1..Len(issues) |-> issues[k] @@ [file |-> name]]

\* s[:n]
Take(s, n) == SubSeq(s, 1, Min(n, Len(s)))

\* Variant of _rate_security: every threshold belongs to the lower bucket.
ExclusiveSecurityRating(score) ==
    IF score > 90 THEN "Excellent"
    ELSE IF score > 70 THEN "Good"
    ELSE IF score > 50 THEN "Fair"
    ELSE "Poor"

_rate_security(score) ==
    IF score >= 90 THEN "Excellent"
    ELSE IF score >= 70 THEN "Good"
    ELSE IF score >= 50 THEN "Fair"
    ELSE "Poor"

\* Variant of TopSecurityIssues: the five most severe issues, HIGH first.
MostSevereSecurityIssues(all_security_issues) ==
    LET Of(sev) == SelectSeq(all_security_issues, LAMBDA x : x.severity = sev)
    IN  Take(Of("HIGH") \o Of("MEDIUM") \o Of("LOW"), 5)

\* all_security_issues[:5]
TopSecurityIssues(all_security_issues) == Take(all_security_issues, 5)

_assess_project_security(project_data) ==
    LET fs == Analyzed(project_data.files)
        all_security_issues ==
            FlattenSeq([i \in 1..Len(fs) |->
                WithFile(_scan_security_vulnerabilities(fs[i].content), fs[i].name)])
        Severity(sev) == Len(SelectSeq(all_security_issues, LAMBDA x : x.severity = sev))
        high_severity   == Severity("HIGH")
        medium_severity == Severity("MEDIUM")
        low_severity    == Severity("LOW")
        security_score  == Max(0, 100 - (high_severity * 20 + medium_severity * 10
                                         + low_severity * 5))
    IN  [total_issues           |-> Len(all_security_issues),
         high_severity_issues   |-> high_severity,
         medium_severity_issues |-> medium_severity,
         low_severity_issues    |-> low_severity,
         security_score         |-> security_score,
         security_rating        |-> _rate_security(security_score),
         top_issues             |-> TopSecurityIssues(all_security_issues)]

\* Variant of PerformanceScore: the score without its floor at 0.
UnflooredPerformanceScore(issue_count) == 100 - issue_count * 10

\* max(0, 100 - len(all_performance_issues) * 10)
PerformanceScore(issue_count) == Max(0, 100 - issue_count * 10)

\* all_performance_issues[:5]
TopPerformanceIssues(all_performance_issues) == Take(all_performance_issues, 5)

_analyze_project_performance(project_data) ==
    LET fs == Analyzed(project_data.files)
        all_performance_issues ==
            FlattenSeq([i \in 1..Len(fs) |->
                WithFile(_analyze_performance_patterns(fs[i].content), fs[i].name)])
    IN  [total_performance_issues |-> Len(all_performance_issues),
         critical_issues   |-> Len(SelectSeq(all_performance_issues,
                                             LAMBDA x : x.severity = "HIGH")),
         performance_score |-> PerformanceScore(Len(all_performance_issues)),
         top_issues        |-> TopPerformanceIssues(all_performance_issues)]

_calculate_maintainability_score(project_data) ==
    LET fs == Analyzed(project_data.files)
        file_count == Len(fs)
        total_debt_score ==
            SumSeq([i \in 1..Len(fs) |-> _calculate_technical_debt(fs[i].content).overall_score])
        \* average_debt = avg_num / den ; maintainability_score = score_num / den
        den     == IF file_count > 0 THEN file_count ELSE 1
        avg_num == IF file_count > 0 THEN total_debt_score ELSE 0
        score_num == Max(0, 100 * den - avg_num)
    IN  [maintainability_score  |-> RoundTenths(score_num, den),
         maintainability_rating |-> _rate_quality(score_num, den),
         average_technical_debt |-> RoundTenths(avg_num, den),
         files_analyzed         |-> file_count]

\* Variant of SecurityRecommendation: the item is decided by the medium-severity
\* count.
MediumSecurityRecommendation(security) ==
    IF security.medium_severity_issues > 0
    THEN <<[category |-> "Security", priority |-> "HIGH",
            title |-> "Address High-Severity Security Issues"]>>
    ELSE <<>>

\* The three conditional items of _generate_project_recommendations: what
\* each `if` appends to recommendations.
SecurityRecommendation(security) ==
    IF security.high_severity_issues > 0
    THEN <<[category |-> "Security", priority |-> "HIGH",
            title |-> "Address High-Severity Security Issues"]>>
    ELSE <<>>

PerformanceRecommendation(performance) ==
    IF performance.critical_issues > 0
    THEN <<[category |-> "Performance", priority |-> "MEDIUM",
            title |-> "Optimize Performance Bottlenecks"]>>
    ELSE <<>>

\* Variant of ArchitectureRecommendation: the item is decided by "Large" alone.
LargeOnlyArchitectureRecommendation(overview) ==
    IF overview.project_size = "Large"
    THEN <<[category |-> "Architecture", priority |-> "MEDIUM",
            title |-> "Consider Code Modularization"]>>
    ELSE <<>>

ArchitectureRecommendation(overview) ==
    IF overview.project_size = "Large" \/ overview.project_size = "Very Large"
    THEN <<[category |-> "Architecture", priority |-> "MEDIUM",
            title |-> "Consider Code Modularization"]>>
    ELSE <<>>

_generate_project_recommendations(project_data) ==
    LET overview    == _analyze_project_overview(project_data)
        security    == _assess_project_security(project_data)
        performance == _analyze_project_performance(project_data)
        r1 == SecurityRecommendation(security)
        r2 == PerformanceRecommendation(performance)
        r3 == ArchitectureRecommendation(overview)
        r4 == <<[category |-> "Testing", priority |-> "MEDIUM",
                 title |-> "Implement Comprehensive Testing"]>>
        r5 == <<[category |-> "Documentation", priority |-> "LOW",
                 title |-> "Improve Code Documentation"]>>
    IN  Take(r1 \o r2 \o r3 \o r4 \o r5, 10)

\* (analyzed_at, the time of the call, is not carried)
analyze_project_structure(project_data) ==
    [project_overview      |-> _analyze_project_overview(project_data),
     architecture_patterns |-> _detect_architecture_patterns(project_data),
     code_quality_summary  |-> _summarize_code_quality(project_data),
     security_assessment   |-> _assess_project_security(project_data),
     performance_analysis  |-> _analyze_project_performance(project_data),
     maintainability_score |-> _calculate_maintainability_score(project_data),
     recommendations       |-> _generate_project_recommendations(project_data)]

(***************************************************************************)
(* File Analyzer: analyze_code_file and the steps not used by the project  *)
(* aggregation.  The external providers are inputs: radon is              *)
(* [available, cc, mi] with cc and mi the outcomes of cc_visit and        *)
(* mi_visit (each raises or returns), the enrichment pipeline is an        *)
(* attribute of the agent.  The result of a step is an outcome: Ok(value), *)
(* or Raises(error) when an exception leaves the step.                     *)
(***************************************************************************)
Ok(value)     == [ok |-> TRUE, value |-> value]
Raises(error) == [ok |-> FALSE, error |-> error]

\* The argument None, passed for content / for file_path.
None     == <<>>
NonePath == "None"

\* A rule whose pattern re cannot compile, and the registry of the source with
\* that rule appended.
MalformedRule == [name |-> "Malformed Rule", severity |-> "HIGH"]
RegistryWithMalformedRule == Append(_load_vulnerability_patterns, MalformedRule)

\* The outcomes of cc_visit (the complexities of the functions found) and of
\* mi_visit.
CcOutcomes == {[raises |-> TRUE,  results |-> <<>>],
               [raises |-> FALSE, results |-> <<>>],
               [raises |-> FALSE, results |-> <<2, 12>>]}
MiOutcomes == {[raises |-> TRUE,  value |-> 0],
               [raises |-> FALSE, value |-> 0],
               [raises |-> FALSE, value |-> 65]}

\* RADON_AVAILABLE False, or True with a behaviour of each call.  (mi_visit is
\* reached only after cc_visit returned.)
RadonBehaviours ==
    {[available |-> FALSE, cc |-> [raises |-> TRUE, results |-> <<>>],
      mi |-> [raises |-> TRUE, value |-> 0]]}
    \cup {[available |-> TRUE, cc |-> cc, mi |-> mi] : cc \in CcOutcomes, mi \in MiOutcomes}

\* max(result.complexity for result in results)
MaxOf(results) == CHOOSE c \in {results[k] : k \in 1..Len(results)} :
                      \A k \in 1..Len(results) : results[k] <= c

\* _calculate_code_metrics from `if RADON_AVAILABLE:` on: the fields added to
\* metrics.  An exception of either call is caught and logged; what was
\* assigned before it stays.
RadonFields(metrics, radon) ==
    LET with_complexity ==
            IF radon.available /\ ~radon.cc.raises /\ radon.cc.results # <<>>
            THEN metrics @@
                 [average_complexity |-> [num |-> SumSeq(radon.cc.results),
                                          den |-> Len(radon.cc.results)],
                  max_complexity     |-> MaxOf(radon.cc.results)]
            ELSE metrics
    IN  IF radon.available /\ ~radon.cc.raises /\ ~radon.mi.raises /\ radon.mi.value # 0
        THEN with_complexity @@ [maintainability_index |-> radon.mi.value]
        ELSE with_complexity

\* design_patterns + anti_patterns
all_patterns ==
    <<[name |-> "Singleton Pattern", type |-> "design_pattern"],
      [name |-> "Factory Pattern",   type |-> "design_pattern"],
      [name |-> "Observer Pattern",  type |-> "design_pattern"],
      [name |-> "Strategy Pattern",  type |-> "design_pattern"],
      [name |-> "God Class",         type |-> "anti_pattern"],
      [name |-> "Long Method",       type |-> "anti_pattern"],
      [name |-> "Magic Numbers",     type |-> "anti_pattern"]>>

\* len(match.group()) of the matches of a rule of all_patterns inside line l,
\* in ascending position: (notify|observer|subscribe) and \b\d{2,}\b.  The
\* lines tabulated are those of FileLines; none of them holds `class` or
\* `def`, which the other five rules need.
PatternMatchLengths(rule, l) ==
    CASE rule = "Observer Pattern" /\ l = "notify" -> <<6, 8>>
      [] rule = "Magic Numbers"    /\ l = "bignum" -> <<150>>
      [] OTHER -> <<>>

\* len(match.group()[:100] + '...') if len(match.group()) > 100 else len(match.group())
MatchedTextLength(length) == IF length > 100 THEN Min(length, 100) + 3 ELSE length

\* (matched_text carries the length of the reported text)
_detect_code_patterns(content) ==
    LET OfRule(r) ==
            FlattenSeq([i \in 1..Len(content) |->
                [k \in 1..Len(PatternMatchLengths(all_patterns[r].name, content[i])) |->
                    [name         |-> all_patterns[r].name,
                     type         |-> all_patterns[r].type,
                     line_number  |-> LineNumber(content, i),
                     matched_text |-> MatchedTextLength(
                         PatternMatchLengths(all_patterns[r].name, content[i])[k])]]])
    IN  FlattenSeq([r \in 1..Len(all_patterns) |-> OfRule(r)])

\* (complex_functions carries the complexities above 10)
_analyze_complexity(radon) ==
    IF radon.available /\ ~radon.cc.raises /\ radon.cc.results # <<>>
    THEN [total_functions    |-> Len(radon.cc.results),
          complex_functions  |-> SelectSeq(radon.cc.results, LAMBDA c : c > 10),
          average_complexity |-> [num |-> SumSeq(radon.cc.results),
                                  den |-> Len(radon.cc.results)],
          max_complexity     |-> MaxOf(radon.cc.results)]
    ELSE [total_functions    |-> 0,
          complex_functions  |-> <<>>,
          average_complexity |-> [num |-> 0, den |-> 1],
          max_complexity     |-> 0]

\* code_analysis_pipeline is "None", or a pipeline whose call returns ("ok") or
\* raises ("fails").  len(None) raises inside the try as well.  No line of
\* Lines holds `def test_`.
_generate_ai_insights(self, content) ==
    LET insights == [status |-> "not_available", summary |-> "",
                     recommendations |-> 0, code_quality |-> "unknown"]
    IN  IF self.code_analysis_pipeline = "None" THEN insights
        ELSE IF self.code_analysis_pipeline = "fails" \/ content = None
        THEN [insights EXCEPT !.status = "error"] @@ [error |-> "str(e)"]
        ELSE [status |-> "analyzed",
              summary |-> "Code analysis completed using CodeBERT model",
              recommendations |-> 4,
              code_quality |-> IF LineCount(content) > 500 THEN "complex" ELSE "moderate"]
             @@ [classification |-> "result"]

\* The steps of analyze_code_file, in the order the dict literal evaluates
\* them.  With content None the first use of content raises: content.split in
\* the metrics, re.finditer / re.findall elsewhere.  os.path.splitext(None)
\* raises.  re compiles a pattern when the scan reaches its rule.
StepFileType(file_path) ==
    IF file_path = NonePath THEN Raises("TypeError")
    ELSE Ok(_detect_file_type(file_path))

StepMetrics(content, radon) ==
    IF content = None THEN Raises("AttributeError")
    ELSE Ok(RadonFields(_calculate_code_metrics(content), radon))

StepPatterns(content) ==
    IF content = None THEN Raises("TypeError") ELSE Ok(_detect_code_patterns(content))

\* A variant that reports the first match of each rule only.
StepSecurityOnePerRule(self, content) ==
    IF content = None THEN Raises("TypeError")
    ELSE IF \E k \in 1..Len(self.vulnerability_patterns) :
                self.vulnerability_patterns[k] = MalformedRule
    THEN Raises("re.error")
    ELSE LET all == _scan_security_vulnerabilities(content)
             rules == _load_vulnerability_patterns
             OfRule(r) == SelectSeq(all, LAMBDA x : x.name = rules[r].name)
         IN  Ok(FlattenSeq([r \in 1..Len(rules) |->
                    IF OfRule(r) = <<>> THEN <<>> ELSE <<OfRule(r)[1]>>]))

StepSecurity(self, content) ==
    IF content = None THEN Raises("TypeError")
    ELSE IF \E k \in 1..Len(self.vulnerability_patterns) :
                self.vulnerability_patterns[k] = MalformedRule
    THEN Raises("re.error")
    ELSE Ok(_scan_security_vulnerabilities(content))

StepPerformance(content) ==
    IF content = None THEN Raises("TypeError")
    ELSE Ok(_analyze_performance_patterns(content))

StepComplexity(radon) == Ok(_analyze_complexity(radon))

StepDebt(content) ==
    IF content = None THEN Raises("TypeError") ELSE Ok(_calculate_technical_debt(content))

\* Variant of StepInsights: a failure of the pipeline call leaves the step.
StepInsightsUncaught(self, content) ==
    IF self.code_analysis_pipeline = "fails" THEN Raises("pipeline error")
    ELSE Ok(_generate_ai_insights(self, content))

StepInsights(self, content) == Ok(_generate_ai_insights(self, content))

\* Variant of HandleFailure: the exception leaves analyze_code_file.
ReraiseFailure(file_path, error) == [raised |-> error]

\* except Exception as e: the report returned
HandleFailure(file_path, error) ==
    [error |-> error, file_path |-> file_path, analyzed_at |-> "now"]

\* (analyzed_at is the time of the call, "now")
analyze_code_file(self, file_path, content, radon) ==
    LET steps == <<StepFileType(file_path), StepMetrics(content, radon),
                   StepPatterns(content), StepSecurity(self, content),
                   StepPerformance(content), StepComplexity(radon),
                   StepDebt(content), StepInsights(self, content)>>
        failed == {k \in 1..Len(steps) : ~steps[k].ok}
        first  == CHOOSE k \in failed : \A j \in failed : k <= j
    IN  IF failed # {}
        THEN HandleFailure(file_path, steps[first].error)
        ELSE [file_path           |-> file_path,
              analyzed_at         |-> "now",
              file_type           |-> steps[1].value,
              metrics             |-> steps[2].value,
              patterns            |-> steps[3].value,
              security_issues     |-> steps[4].value,
              performance_issues  |-> steps[5].value,
              complexity_analysis |-> steps[6].value,
              technical_debt      |-> steps[7].value,
              ai_insights         |-> steps[8].value]

(***************************************************************************)
(* Field scanner (excel_field_scanner.py).  A source line is one of        *)
(* ScanLines; the content of a source file is a non-empty sequence of      *)
(* them, and a text of several lines joined by "\n" is the sequence of its *)
(* lines.  Table and field names contain no '.', so the combined name      *)
(* table.field is held as the pair of the two.                             *)
(***************************************************************************)
\*   "assign"  user.firstName = name
\*   "create"  CREATE TABLE users (
\*   "plain"   return 0
ScanLines == {"assign", "create", "plain"}

\* The rows of the sheet below its header: the table and the field cell.
Rows == {[table |-> "users", field |-> "firstName"],
         [table |-> "orders", field |-> "total"],
         [table |-> "users", field |-> ""]}

\* ExcelFieldScanner(excel_path)
ExcelFieldScanner == [field_mappings |-> <<>>]

\* parse_excel: the mappings of the rows whose two cells are not empty
parse_excel(rows) ==
    LET kept == SelectSeq(rows, LAMBDA row : row.table # "" /\ row.field # "")
    IN  [k \in 1..Len(kept) |->
            [tableName |-> kept[k].table, fieldName |-> kept[k].field,
             combined  |-> <<kept[k].table, kept[k].field>>]]

\* re.search(pattern, line, re.IGNORECASE) for some pattern of the field name
FieldNameFound(line, field_name) == line = "assign" /\ field_name = "firstName"

\* re.search(pattern, line, re.IGNORECASE) for some pattern of the table name
TableNameFound(line, table_name) == line = "create" /\ table_name = "users"

\* lines[start:end]
Slice(lines, start, end) ==
    IF end <= start THEN <<>> ELSE [k \in 1..(end - start) |-> lines[start + k]]

\* '\n'.join(lines[start_line:end_line]) around the line numbered line_num
Context(lines, line_num) ==
    LET start_line == Max(0, line_num - 2)
        end_line   == Min(Len(lines), line_num + 2)
    IN  Slice(lines, start_line, end_line)

\* The matches of one scanner: one per line whose number is in numbers, in
\* line order.
LineMatches(lines, numbers, file_path, matchType) ==
        [k \in 1..Len(numbers) |->
            [filePath   |-> file_path,
             lineNumber |-> numbers[k],
             line       |-> lines[numbers[k]],
             context    |-> Context(lines, numbers[k]),
             matchType  |-> matchType]]

_find_field_name_matches(content, field_name, file_path) ==
    LET numbers == SelectSeq([n \in 1..Len(content) |-> n],
                             LAMBDA n : FieldNameFound(content[n], field_name))
    IN  LineMatches(content, numbers, file_path, "field_name")

_find_table_name_matches(content, table_name, file_path) ==
    LET numbers == SelectSeq([n \in 1..Len(content) |-> n],
                             LAMBDA n : TableNameFound(content[n], table_name))
    IN  LineMatches(content, numbers, file_path, "table_name")

scan_source_files(self, sources) ==
    LET mappings == self.field_mappings
        field_matches(m) ==
            FlattenSeq([i \in 1..Len(sources) |->
                _find_field_name_matches(sources[i].content, mappings[m].fieldName,
                                         sources[i].relativePath)])
        table_matches(m) ==
            FlattenSeq([i \in 1..Len(sources) |->
                _find_table_name_matches(sources[i].content, mappings[m].tableName,
                                         sources[i].relativePath)])
        all_matches(m) == field_matches(m) \o table_matches(m)
        Entry(m) ==
            IF all_matches(m) # <<>>
            THEN [tableName |-> mappings[m].tableName,
                  fieldName |-> mappings[m].fieldName,
                  combined  |-> mappings[m].combined,
                  matchCount |-> Len(all_matches(m)),
                  locations  |-> all_matches(m),
                  fieldMatchCount |-> Len(field_matches(m)),
                  tableMatchCount |-> Len(table_matches(m))]
            ELSE [tableName |-> mappings[m].tableName,
                  fieldName |-> mappings[m].fieldName,
                  combined  |-> mappings[m].combined]
        order == [m \in 1..Len(mappings) |-> m]
        matched   == SelectSeq(order, LAMBDA m : all_matches(m) # <<>>)
        unmatched == SelectSeq(order, LAMBDA m : all_matches(m) = <<>>)
        \* matched_fields: the set of the combined names that matched
        matched_fields == {mappings[matched[k]].combined : k \in 1..Len(matched)}
    IN  [totalFields     |-> Len(mappings),
         matchedFields   |-> Cardinality(matched_fields),
         matches         |-> [k \in 1..Len(matched) |-> Entry(matched[k])],
         unmatchedFields |-> [k \in 1..Len(unmatched) |-> Entry(unmatched[k])]]

(***************************************************************************)
(* The state machine.  The caller assembles project_data file by file and  *)
(* line by line, then calls the analysis; a report is the value returned   *)
(* for the project_data as it then stands.                                 *)
(***************************************************************************)
\* The agent before __init__ has run.
NotConstructed == [constructed |-> FALSE]

\* __init__: the attributes it assigns.  The registries are stored as loaded
\* (nothing compiles or inspects a pattern here); code_analysis_pipeline is
\* "None" when HuggingFace is unavailable or its initialization failed, and
\* otherwise a pipeline whose calls return ("ok") or raise ("fails").
__init__(vulnerability_patterns, code_analysis_pipeline) ==
    [constructed            |-> TRUE,
     vulnerability_patterns |-> vulnerability_patterns,
     performance_patterns   |-> _load_performance_patterns,
     code_analysis_pipeline |-> code_analysis_pipeline]

\* An agent with the registries of the source and no enrichment provider.
Init ==
    /\ files = <<>>
    /\ debt_indicators = NoReport
    /\ project_report = NoReport
    /\ agent = __init__(_load_vulnerability_patterns, "None")
    /\ file_call = NoReport
    /\ file_report = NoReport
    /\ first_report = NoReport
    /\ scanner = ExcelFieldScanner
    /\ source_files = <<>>
    /\ scan_results = NoReport

Assembling ==
    debt_indicators = NoReport /\ project_report = NoReport /\ file_report = NoReport

TotalLines(fs) == SumSeq([i \in 1..Len(fs) |-> Len(fs[i].content)])

\* The caller adds a file whose content is the single line l.
NewFile(name, l, maxFiles) ==
    /\ Assembling
    /\ Len(files) < maxFiles
    /\ TotalLines(files) < MaxLines
    /\ files' = Append(files, [name |-> name, content |-> <<l>>])
    /\ UNCHANGED <<debt_indicators, project_report, agent, file_call, file_report, first_report>> /\ UNCHANGED excel

\* The caller extends the content of the last file by "\n" and the line l.
AppendLine(l) ==
    /\ Assembling
    /\ files # <<>>
    /\ TotalLines(files) < MaxLines
    /\ files' = [files EXCEPT ![Len(files)].content = Append(@, l)]
    /\ UNCHANGED <<debt_indicators, project_report, agent, file_call, file_report, first_report>> /\ UNCHANGED excel

\* agent.analyze_project_structure(project_data)
AnalyzeProjectStructure ==
    /\ project_report = NoReport
    /\ project_report' = analyze_project_structure([files |-> files])
    /\ UNCHANGED <<files, debt_indicators, agent, file_call, file_report, first_report>> /\ UNCHANGED excel

\* agent._calculate_technical_debt(content) on the content of the first file
CalculateTechnicalDebt ==
    /\ debt_indicators = NoReport
    /\ files # <<>>
    /\ debt_indicators' = _calculate_technical_debt(files[1].content)
    /\ UNCHANGED <<files, project_report, agent, file_call, file_report, first_report>> /\ UNCHANGED excel

\* The name the caller gives the i-th file of a project.
FileNameAt(i) == IF i = 1 THEN "app.py" ELSE IF i = 2 THEN "index.js" ELSE "README"

\* Projects whose lines carry security issues of every severity, performance
\* issues and debt.
ProjectLines == {"empty", "cred3", "xss", "rand", "sync4", "for", "query", "debt",
                 "debt30"}

Next ==
    \/ \E l \in ProjectLines : NewFile(FileNameAt(Len(files) + 1), l, MaxFiles)
    \/ \E l \in ProjectLines : AppendLine(l)
    \/ AnalyzeProjectStructure

Spec == Init /\ [][Next]_vars

\* One file whose lines carry every debt indicator.
DebtLines == {"empty", "code", "todo", "magic", "deep", "dupl", "debt", "debt30",
              "def", "pad20"}

NextDebt ==
    \/ \E l \in DebtLines : NewFile("app.py", l, 1)
    \/ \E l \in DebtLines : AppendLine(l)
    \/ CalculateTechnicalDebt

SpecDebt == Init /\ [][NextDebt]_vars

\* One file with lines that recur, with and without indentation, of 20, 21
\* and 35 characters.
DuplLines == {"empty", "code", "dupl", "idupl", "xss", "notify"}

NextDupl ==
    \/ \E l \in DuplLines : NewFile("app.py", l, 1)
    \/ \E l \in DuplLines : AppendLine(l)
    \/ CalculateTechnicalDebt

SpecDupl == Init /\ [][NextDupl]_vars

\* Projects of every size bucket, with and without a high-severity issue.
SizeLines == {"empty", "cred3", "sync4", "pad999", "pad9999", "pad99999"}

NextSize ==
    \/ \E l \in SizeLines : NewFile(FileNameAt(Len(files) + 1), l, MaxFiles)
    \/ \E l \in SizeLines : AppendLine(l)
    \/ AnalyzeProjectStructure

SpecSize == Init /\ [][NextSize]_vars

\* Projects told apart by the names of their files only.
NextNames ==
    \/ \E name \in FileNames : NewFile(name, "code", MaxFiles)
    \/ AnalyzeProjectStructure

SpecNames == Init /\ [][NextNames]_vars

\* The caller hands over a project of ManyFiles files: k files of content a
\* followed by files of content b.
NewProject(a, b, k) ==
    /\ Assembling
    /\ files = <<>>
    /\ files' = [i \in 1..ManyFiles |->
                    [name |-> FileNameAt(i), content |-> IF i <= k THEN a ELSE b]]
    /\ UNCHANGED <<debt_indicators, project_report, agent, file_call, file_report, first_report>> /\ UNCHANGED excel

\* The empty content, contents of debt 0, 20, 21, 40, 41, 50, 51, 60 and 61,
\* and one with three security issues, four performance issues and the
\* greatest debt.
ManyContents ==
    {<<"empty">>,
     <<"code">>,
     <<"deep", "todo">>,
     <<"deep", "magic", "magic", "magic">>,
     <<"debt", "magic", "magic", "magic">>,
     <<"debt", "todo", "magic">>,
     <<"debt30", "deep", "todo">>,
     <<"debt", "deep", "magic">>,
     <<"debt30", "deep", "deep">>,
     <<"debt", "deep", "todo", "todo", "magic">>,
     <<"cred3", "sync4", "debt", "debt", "debt">>}

\* Projects of many files, whose averages have many decimals.
NextMany ==
    \/ \E a, b \in ManyContents : \E k \in 0..ManyFiles : NewProject(a, b, k)
    \/ AnalyzeProjectStructure

SpecMany == Init /\ [][NextMany]_vars

\* Projects whose files have security and performance issues, some of them
\* several of one rule on a line or spanning two lines.
AgreeLines == {"empty", "cred3", "xss", "sync4", "for", "query"}

NextAgree ==
    \/ \E l \in AgreeLines : NewFile(FileNameAt(Len(files) + 1), l, MaxFiles)
    \/ \E l \in AgreeLines : AppendLine(l)
    \/ AnalyzeProjectStructure

SpecAgree == Init /\ [][NextAgree]_vars

\* Before the agent is constructed.
InitFile ==
    /\ files = <<>>
    /\ debt_indicators = NoReport
    /\ project_report = NoReport
    /\ agent = NotConstructed
    /\ file_call = NoReport
    /\ file_report = NoReport
    /\ first_report = NoReport
    /\ scanner = ExcelFieldScanner
    /\ source_files = <<>>
    /\ scan_results = NoReport

\* agent = CodeLensAgent(), with the registry _load_vulnerability_patterns
\* returns and the pipeline the environment provides
Construct(vulnerability_patterns, code_analysis_pipeline) ==
    /\ agent = NotConstructed
    /\ agent' = __init__(vulnerability_patterns, code_analysis_pipeline)
    /\ UNCHANGED <<files, debt_indicators, project_report, file_call, file_report, first_report>> /\ UNCHANGED excel

\* A variant of AnalyzeCodeFile after which the registry of the agent holds a
\* rule that does not compile.
AnalyzeCodeFileLeavingState(file_path, radon) ==
    /\ agent # NotConstructed
    /\ file_report = NoReport
    /\ LET content == IF files = <<>> THEN None ELSE files[1].content
       IN  /\ file_call' = [file_path |-> file_path, content |-> content, radon |-> radon]
           /\ file_report' = analyze_code_file(agent, file_path, content, radon)
    /\ agent' = [agent EXCEPT !.vulnerability_patterns = RegistryWithMalformedRule]
    /\ UNCHANGED <<files, debt_indicators, project_report, first_report>> /\ UNCHANGED excel

\* agent.analyze_code_file(file_path, content), content being the text of the
\* file assembled, or None when there is none
AnalyzeCodeFile(file_path, radon) ==
    /\ agent # NotConstructed
    /\ file_report = NoReport
    /\ LET content == IF files = <<>> THEN None ELSE files[1].content
       IN  /\ file_call' = [file_path |-> file_path, content |-> content, radon |-> radon]
           /\ file_report' = analyze_code_file(agent, file_path, content, radon)
    /\ UNCHANGED <<files, debt_indicators, project_report, agent, first_report>> /\ UNCHANGED excel

\* The call is repeated with the same arguments, the providers behaving as
\* before; datetime.now() has moved on.
AnalyzeCodeFileAgain ==
    /\ file_report # NoReport
    /\ first_report = NoReport
    /\ first_report' = file_report
    /\ file_report' =
           [analyze_code_file(agent, file_call.file_path, file_call.content,
                              file_call.radon) EXCEPT !.analyzed_at = "later"]
    /\ UNCHANGED <<files, debt_indicators, project_report, agent, file_call>> /\ UNCHANGED excel

\* One file whose lines carry several matches of one rule and long matches.
FileLines == {"empty", "cred3", "sync4", "bignum", "longcred", "notify"}

NextFile ==
    \/ \E registry \in {_load_vulnerability_patterns, RegistryWithMalformedRule},
          pipeline \in {"None", "ok", "fails"} : Construct(registry, pipeline)
    \/ \E l \in FileLines : agent # NotConstructed /\ NewFile("app.py", l, 1)
    \/ \E l \in FileLines : AppendLine(l)
    \/ \E file_path \in {"app.py", NonePath}, radon \in RadonBehaviours :
           AnalyzeCodeFile(file_path, radon)

SpecFile == InitFile /\ [][NextFile]_vars

\* One file of blank lines, comments and code.
MetricLines == {"empty", "ws", "code", "comment", "debt", "def", "pad20"}

NextMetrics ==
    \/ \E l \in MetricLines : NewFile("app.py", l, 1)
    \/ \E l \in MetricLines : AppendLine(l)
    \/ \E radon \in RadonBehaviours : AnalyzeCodeFile("app.py", radon)

SpecMetrics == Init /\ [][NextMetrics]_vars

\* One file analysed twice.
TwiceLines == {"empty", "cred3", "sync4", "notify"}

NextTwice ==
    \/ \E registry \in {_load_vulnerability_patterns, RegistryWithMalformedRule},
          pipeline \in {"None", "ok"} : Construct(registry, pipeline)
    \/ \E l \in TwiceLines : agent # NotConstructed /\ NewFile("app.py", l, 1)
    \/ \E l \in TwiceLines : AppendLine(l)
    \/ \E file_path \in {"app.py", NonePath}, radon \in RadonBehaviours :
           AnalyzeCodeFile(file_path, radon)
    \/ AnalyzeCodeFileAgain

SpecTwice == InitFile /\ [][NextTwice]_vars

\* scanner.parse_excel() on a sheet of the given rows
ParseExcel(rows) ==
    /\ scan_results = NoReport
    /\ scanner.field_mappings = <<>>
    /\ rows # <<>>
    /\ scanner' = [scanner EXCEPT !.field_mappings = parse_excel(rows)]
    /\ UNCHANGED <<source_files, scan_results>> /\ UNCHANGED codeLens

SourceLines(sources) == SumSeq([i \in 1..Len(sources) |-> Len(sources[i].content)])

\* The caller adds a source file whose content is the single line l.
NewSourceFile(relativePath, l) ==
    /\ scan_results = NoReport
    /\ Len(source_files) < MaxSourceFiles
    /\ SourceLines(source_files) < MaxSourceLines
    /\ source_files' = Append(source_files, [relativePath |-> relativePath, content |-> <<l>>])
    /\ UNCHANGED <<scanner, scan_results>> /\ UNCHANGED codeLens

\* The caller extends the content of the last source file by "\n" and the line l.
AppendSourceLine(l) ==
    /\ scan_results = NoReport
    /\ source_files # <<>>
    /\ SourceLines(source_files) < MaxSourceLines
    /\ source_files' = [source_files EXCEPT ![Len(source_files)].content = Append(@, l)]
    /\ UNCHANGED <<scanner, scan_results>> /\ UNCHANGED codeLens

\* scanner.scan_source_files(source_files)
ScanSourceFiles ==
    /\ scan_results = NoReport
    /\ scan_results' = scan_source_files(scanner, source_files)
    /\ UNCHANGED <<scanner, source_files>> /\ UNCHANGED codeLens

\* The sheets of up to n rows.
Sheets(n) == UNION {[1..k -> Rows] : k \in 0..n}

SourcePathAt(i) == IF i = 1 THEN "User.java" ELSE "schema.sql"

NextExcel ==
    \/ \E rows \in Sheets(MaxMappings) : ParseExcel(rows)
    \/ \E l \in ScanLines : NewSourceFile(SourcePathAt(Len(source_files) + 1), l)
    \/ \E l \in ScanLines : AppendSourceLine(l)
    \/ ScanSourceFiles

SpecExcel == Init /\ [][NextExcel]_vars

(***************************************************************************)
(* The properties.  Each one compares what a report says with a quantity   *)
(* recomputed from the project as the caller assembled it.                 *)
(***************************************************************************)
Reported == project_report # NoReport

\* The files of the project whose content is not the empty string.
NonEmptyFiles == {i \in 1..Len(files) : files[i].content # <<"empty">>}

\* The sum of F over the files with non-empty content.
SumOverNonEmpty(F(_)) ==
    SumSeq([i \in 1..Len(files) |-> IF i \in NonEmptyFiles THEN F(files[i].content) ELSE 0])

SecurityIssuesOf(content)    == Len(_scan_security_vulnerabilities(content))
PerformanceIssuesOf(content) == Len(_analyze_performance_patterns(content))
DebtScoreOf(content)         == _calculate_technical_debt(content).overall_score

SecurityIssueCount    == SumOverNonEmpty(SecurityIssuesOf)
PerformanceIssueCount == SumOverNonEmpty(PerformanceIssuesOf)
DebtTotal             == SumOverNonEmpty(DebtScoreOf)

\* The number of security issues of one severity over the non-empty files.
SeverityCount(sev) ==
    LET Of(content) == Len(SelectSeq(_scan_security_vulnerabilities(content),
                                     LAMBDA x : x.severity = sev))
    IN  SumOverNonEmpty(Of)

Abs(x) == IF x < 0 THEN -x ELSE x

\* tenths is a value with one decimal that lies nearest to num / den
NearestTenth(tenths, num, den) == 2 * Abs(10 * num - tenths * den) <= den

\* The weighted sum of the indicators a debt report carries.
ReportedWeightedSum ==
    5 * debt_indicators.todo_comments + 10 * debt_indicators.code_duplication
    + 8 * debt_indicators.long_functions + 2 * debt_indicators.magic_numbers
    + 15 * debt_indicators.deep_nesting

\* C1: the overall_score that _calculate_technical_debt reports is
\* min(100, todo*5 + duplication*10 + long_functions*8 + magic_numbers*2 +
\* deep_nesting*15) of the non-negative indicator counts it reports, and so
\* lies in 0..100.
C1_DebtScoreIsCappedWeightedSum ==
    debt_indicators # NoReport =>
        /\ debt_indicators.todo_comments \in Nat
        /\ debt_indicators.code_duplication \in Nat
        /\ debt_indicators.long_functions \in Nat
        /\ debt_indicators.magic_numbers \in Nat
        /\ debt_indicators.deep_nesting \in Nat
        /\ debt_indicators.overall_score =
              (IF ReportedWeightedSum > 100 THEN 100 ELSE ReportedWeightedSum)
        /\ debt_indicators.overall_score \in 0..100

\* A debt report whose weighted sum exceeds 100 and whose score is the cap.
C1_CapReached ==
    /\ debt_indicators # NoReport
    /\ ReportedWeightedSum > 100
    /\ debt_indicators.overall_score = 100

\* C2: the assessment that _calculate_technical_debt reports is the threshold
\* function of the overall_score it reports: LOW below 20, MEDIUM from 20
\* below 50, HIGH from 50 below 80, CRITICAL from 80.
C2_AssessmentIsThresholdOfScore ==
    debt_indicators # NoReport =>
        LET score == debt_indicators.overall_score
            level == debt_indicators.assessment
        IN  /\ level \in {"LOW", "MEDIUM", "HIGH", "CRITICAL"}
            /\ (level = "LOW")      <=> (score < 20)
            /\ (level = "MEDIUM")   <=> (20 <= score /\ score < 50)
            /\ (level = "HIGH")     <=> (50 <= score /\ score < 80)
            /\ (level = "CRITICAL") <=> (80 <= score)

\* A debt report whose score is exactly the threshold 20.
C2_ScoreOnThreshold ==
    /\ debt_indicators # NoReport
    /\ debt_indicators.overall_score = 20
    /\ debt_indicators.assessment = "MEDIUM"

\* max(0, 100 - min(30, securityIssueCount*5) - min(20, performanceIssueCount*3)
\*          - min(40, averageDebt*0.4)) as the fraction num / den, the average
\* being DebtTotal over the number of non-empty files (0 when there is none).
ExactQualityScore ==
    LET n == IF NonEmptyFiles = {} THEN 1 ELSE Cardinality(NonEmptyFiles)
        securityPenalty    == IF SecurityIssueCount >= 6 THEN 30
                              ELSE SecurityIssueCount * 5
        performancePenalty == IF PerformanceIssueCount >= 7 THEN 20
                              ELSE PerformanceIssueCount * 3
        \* in units of 1 / (5 * n)
        debtPenalty == IF 2 * DebtTotal >= 200 * n THEN 200 * n ELSE 2 * DebtTotal
        rest == (100 - securityPenalty - performancePenalty) * 5 * n - debtPenalty
    IN  [num |-> IF rest < 0 THEN 0 ELSE rest, den |-> 5 * n]

\* C3 as stated: overall_quality_score equals the value of the formula.
C3_ScoreEqualsFormula ==
    Reported =>
        project_report.code_quality_summary.overall_quality_score * ExactQualityScore.den
            = 10 * ExactQualityScore.num

\* C3: overall_quality_score is the value of the formula rounded to one
\* decimal, and lies in [0, 100]; with 6 or more security issues the security
\* penalty is 30, so the score is at most 70.
C3_ScoreIsRoundedFormula ==
    Reported =>
        LET score10 == project_report.code_quality_summary.overall_quality_score
        IN  /\ NearestTenth(score10, ExactQualityScore.num, ExactQualityScore.den)
            /\ 0 <= score10 /\ score10 <= 1000
            /\ SecurityIssueCount >= 6 => score10 <= 700

\* A report for a project with a saturated security penalty whose exact score
\* has more than one decimal.
C3_SaturatedAndRounded ==
    /\ Reported
    /\ SecurityIssueCount >= 6
    /\ project_report.code_quality_summary.overall_quality_score * ExactQualityScore.den
           # 10 * ExactQualityScore.num

\* C4: security_score is max(0, 100 - (high*20 + medium*10 + low*5)) over the
\* security issues of the non-empty files, and security_rating is its bucket:
\* Excellent from 90, Good from 70, Fair from 50, Poor below.
C4_SecurityScoreAndRating ==
    Reported =>
        LET a == project_report.security_assessment
            penalty == SeverityCount("HIGH") * 20 + SeverityCount("MEDIUM") * 10
                       + SeverityCount("LOW") * 5
        IN  /\ a.security_score = (IF penalty >= 100 THEN 0 ELSE 100 - penalty)
            /\ (a.security_rating = "Excellent") <=> (a.security_score >= 90)
            /\ (a.security_rating = "Good") <=>
                   (70 <= a.security_score /\ a.security_score < 90)
            /\ (a.security_rating = "Fair") <=>
                   (50 <= a.security_score /\ a.security_score < 70)
            /\ (a.security_rating = "Poor") <=> (a.security_score < 50)

\* A report whose security penalties exceed 100: the score is floored at 0.
C4_ScoreFloored ==
    /\ Reported
    /\ SeverityCount("HIGH") * 20 + SeverityCount("MEDIUM") * 10
       + SeverityCount("LOW") * 5 > 100
    /\ project_report.security_assessment.security_score = 0
    /\ project_report.security_assessment.security_rating = "Poor"

FirstIsSecurityRecommendation ==
    /\ project_report.recommendations # <<>>
    /\ project_report.recommendations[1].category = "Security"
    /\ project_report.recommendations[1].priority = "HIGH"

\* C5 as stated: a project with a security issue of any severity gets the
\* HIGH-priority Security recommendation as the first item.
C5_AnyIssueGivesSecurityRecommendation ==
    (Reported /\ SecurityIssueCount > 0) => FirstIsSecurityRecommendation

\* C5: a project with at least one HIGH-severity security issue gets the
\* HIGH-priority Security recommendation as the first item.
C5_HighIssueGivesSecurityRecommendation ==
    (Reported /\ SeverityCount("HIGH") > 0) => FirstIsSecurityRecommendation

\* A report for a project with a HIGH-severity issue, led by the Security item.
C5_HighIssueReported ==
    /\ Reported
    /\ SeverityCount("HIGH") > 0
    /\ FirstIsSecurityRecommendation

\* C6 as stated: a project with at least one performance issue gets a
\* MEDIUM-priority Performance recommendation.
C6_AnyIssueGivesPerformanceRecommendation ==
    (Reported /\ PerformanceIssueCount > 0) =>
        \E k \in 1..Len(project_report.recommendations) :
            /\ project_report.recommendations[k].category = "Performance"
            /\ project_report.recommendations[k].priority = "MEDIUM"

\* The place of a category in the fixed order of the recommendation rules.
RuleOrder(category) ==
    CASE category = "Security"      -> 1
      [] category = "Performance"   -> 2
      [] category = "Architecture"  -> 3
      [] category = "Testing"       -> 4
      [] category = "Documentation" -> 5
      [] OTHER                      -> 0

\* C7: the recommendations are in the fixed order Security, Performance,
\* Architecture, Testing, Documentation; the Architecture (modularization)
\* item is present exactly when the project size is Large or Very Large;
\* Testing and Documentation are always the last two items; and the list has at
\* most 10 items.
C7_RecommendationOrder ==
    Reported =>
        LET r == project_report.recommendations
            n == Len(r)
        IN  /\ 2 <= n /\ n <= 10
            /\ \A k \in 1..n : RuleOrder(r[k].category) > 0
            /\ \A k \in 1..(n - 1) : RuleOrder(r[k].category) < RuleOrder(r[k + 1].category)
            /\ r[n - 1].category = "Testing"
            /\ r[n].category = "Documentation"
            /\ (\E k \in 1..n : r[k].category = "Architecture" /\ r[k].priority = "MEDIUM")
                   <=> project_report.project_overview.project_size \in {"Large", "Very Large"}

\* A report with the Security and the Architecture items before the closing two.
C7_FourRecommendations ==
    /\ Reported
    /\ Len(project_report.recommendations) = 4
    /\ project_report.recommendations[1].category = "Security"
    /\ project_report.recommendations[2].category = "Architecture"
    /\ project_report.recommendations[3].category = "Testing"

\* The issues of a file as the scan returned them, each tagged with the file.
TaggedIssues(Scan(_), i) ==
    IF i \in NonEmptyFiles
    THEN [k \in 1..Len(Scan(files[i].content)) |->
             Scan(files[i].content)[k] @@ [file |-> files[i].name]]
    ELSE <<>>

\* The full issue list: files in input order, each file's issues in scan order.
RECURSIVE DiscoveredUpTo(_, _)
DiscoveredUpTo(Scan(_), n) ==
    IF n = 0 THEN <<>> ELSE DiscoveredUpTo(Scan, n - 1) \o TaggedIssues(Scan, n)

\* The position of a rule in its registry.
RuleIndex(registry, name) == CHOOSE k \in 1..Len(registry) : registry[k].name = name

\* issues has the rules in registry order and the matches of a rule in ascending
\* position.
InScanOrder(registry, issues) ==
    \A k \in 1..(Len(issues) - 1) :
        \/ RuleIndex(registry, issues[k].name) < RuleIndex(registry, issues[k + 1].name)
        \/ /\ issues[k].name = issues[k + 1].name
           /\ issues[k].line_number <= issues[k + 1].line_number

\* top is the first 5 elements of all, or all of it when it has fewer.
FirstFiveOf(top, all) ==
    /\ Len(top) = (IF Len(all) < 5 THEN Len(all) ELSE 5)
    /\ \A k \in 1..Len(top) : top[k] = all[k]

\* C8: the security and the performance top_issues are the first 5 issues (all
\* when there are fewer) of the full issue list in discovery order: files in
\* input order, within a file rules in registry order and the matches of a rule
\* in ascending position; severity plays no part in the order.
C8_TopIssuesInDiscoveryOrder ==
    Reported =>
        /\ FirstFiveOf(project_report.security_assessment.top_issues,
                       DiscoveredUpTo(_scan_security_vulnerabilities, Len(files)))
        /\ FirstFiveOf(project_report.performance_analysis.top_issues,
                       DiscoveredUpTo(_analyze_performance_patterns, Len(files)))
        /\ \A i \in NonEmptyFiles :
              /\ InScanOrder(_load_vulnerability_patterns,
                             _scan_security_vulnerabilities(files[i].content))
              /\ InScanOrder(_load_performance_patterns,
                             _analyze_performance_patterns(files[i].content))

\* A report for more than 5 security issues whose top_issues start with a
\* MEDIUM issue followed by a HIGH one.
C8_TruncatedAndNotBySeverity ==
    /\ Reported
    /\ SecurityIssueCount > 5
    /\ Len(project_report.security_assessment.top_issues) = 5
    /\ project_report.security_assessment.top_issues[1].severity = "MEDIUM"
    /\ project_report.security_assessment.top_issues[2].severity = "HIGH"

\* C9: performance_score is max(0, 100 - 10 * N) for the N performance issues
\* of the non-empty files: 0 from N = 10 on, never negative.
C9_PerformanceScore ==
    Reported =>
        LET score == project_report.performance_analysis.performance_score
        IN  /\ score = (IF PerformanceIssueCount >= 10 THEN 0
                        ELSE 100 - 10 * PerformanceIssueCount)
            /\ score >= 0

\* A report for more than 10 performance issues: the score is 0.
C9_ScoreFloored ==
    /\ Reported
    /\ PerformanceIssueCount > 10
    /\ project_report.performance_analysis.performance_score = 0

\* C10: the average debt behind the quality score is the sum of the debt
\* scores of the non-empty files divided by their number; the maintainability
\* section reports the same average to one decimal; and with no security or
\* performance issue the quality score is 100 minus min(40, 0.4 * average), to
\* one decimal.
C10_AverageDebtOverNonEmptyFiles ==
    Reported =>
        LET q == project_report.code_quality_summary
            m == project_report.maintainability_score
            n == Cardinality(NonEmptyFiles)
        IN  /\ q.analyzed_files = n
            /\ m.files_analyzed = n
            /\ n = 0 => m.average_technical_debt = 0
            /\ n > 0 =>
                  /\ q.average_technical_debt.num * n = DebtTotal * q.average_technical_debt.den
                  /\ NearestTenth(m.average_technical_debt, DebtTotal, n)
                  /\ (SecurityIssueCount = 0 /\ PerformanceIssueCount = 0) =>
                         NearestTenth(q.overall_quality_score,
                                      500 * n - (IF 2 * DebtTotal > 200 * n THEN 200 * n
                                                 ELSE 2 * DebtTotal),
                                      5 * n)

\* A report for 3 files of debt 30 each: average 30, debt penalty 12.
C10_ThreeFilesOfDebt30 ==
    /\ Reported
    /\ Len(files) = 3
    /\ \A i \in 1..3 : DebtScoreOf(files[i].content) = 30
    /\ project_report.code_quality_summary.average_technical_debt.num
          = 30 * project_report.code_quality_summary.average_technical_debt.den
    /\ project_report.maintainability_score.average_technical_debt = 300
    /\ project_report.code_quality_summary.overall_quality_score = 880

\* The files of the project whose content is the empty string.
EmptyFiles == {i \in 1..Len(files) : files[i].content = <<"empty">>}

\* The only places where a project report carries a file name: the file tags
\* of its top issues.
FilesNamedInReport ==
    {project_report.security_assessment.top_issues[k].file :
         k \in 1..Len(project_report.security_assessment.top_issues)}
    \cup {project_report.performance_analysis.top_issues[k].file :
              k \in 1..Len(project_report.performance_analysis.top_issues)}

FunctionsOf(content) == _calculate_code_metrics(content).functions_count
ClassesOf(content)   == _calculate_code_metrics(content).classes_count

\* C11 as stated: a file with empty content does not abort the aggregation, is
\* counted as unanalyzable (not among the analyzed files), adds nothing to the
\* project's total lines, functions, classes, issue counts and debt, and is
\* named by the report as excluded.
C11_EmptyFileExcludedAndNoted ==
    Reported =>
        /\ "error" \notin DOMAIN project_report
        /\ project_report.project_overview.total_files
               - project_report.code_quality_summary.analyzed_files
           = Cardinality(EmptyFiles)
        /\ project_report.project_overview.total_lines_of_code = SumOverNonEmpty(LineCount)
        /\ project_report.code_quality_summary.total_functions = SumOverNonEmpty(FunctionsOf)
        /\ project_report.code_quality_summary.total_classes = SumOverNonEmpty(ClassesOf)
        /\ project_report.code_quality_summary.security_issues_count = SecurityIssueCount
        /\ project_report.code_quality_summary.performance_issues_count = PerformanceIssueCount
        /\ project_report.code_quality_summary.technical_debt_score = DebtTotal
        /\ \A i \in EmptyFiles : files[i].name \in FilesNamedInReport

\* The fields of a complete file report, and those of an error report.
FullReportFields ==
    {"file_path", "analyzed_at", "file_type", "metrics", "patterns", "security_issues",
     "performance_issues", "complexity_analysis", "technical_debt", "ai_insights"}
ErrorReportFields == {"error", "file_path", "analyzed_at"}

FileReported == file_report # NoReport
FullFileReport == FileReported /\ DOMAIN file_report = FullReportFields

\* C12 as stated: the report for a file with empty content has the seven
\* counts of the metrics at 0, every debt indicator at 0, and debt score 0
\* rated LOW.
C12_EmptyFileCountsAllZero ==
    (FullFileReport /\ file_call.content = <<"empty">>) =>
        /\ \A f \in {"total_lines", "code_lines", "comment_lines", "blank_lines",
                     "functions_count", "classes_count", "imports_count"} :
               file_report.metrics[f] = 0
        /\ \A f \in {"todo_comments", "code_duplication", "long_functions",
                     "magic_numbers", "deep_nesting", "overall_score"} :
               file_report.technical_debt[f] = 0
        /\ file_report.technical_debt.assessment = "LOW"

\* An analysis step of the last call failed: an argument was None, or the scan
\* reached a rule whose pattern does not compile.
StepFailed ==
    \/ file_call.file_path = NonePath
    \/ file_call.content = None
    \/ \E k \in 1..Len(agent.vulnerability_patterns) :
           agent.vulnerability_patterns[k] = MalformedRule

\* C13: analyze_code_file always returns a report; when a step failed the
\* report has exactly the fields file_path, analyzed_at and error, otherwise it
\* has all the analysis fields; no report is populated in part.
C13_ErrorReportOrFullReport ==
    FileReported =>
        /\ DOMAIN file_report \in {FullReportFields, ErrorReportFields}
        /\ StepFailed <=> (DOMAIN file_report = ErrorReportFields)
        /\ file_report.file_path = file_call.file_path

\* A call whose content could not be read, answered by an error report.
C13_UnreadableContentReported ==
    /\ FileReported
    /\ file_call.content = None
    /\ file_call.file_path = "app.py"
    /\ DOMAIN file_report = ErrorReportFields
    /\ file_report.error = "AttributeError"

\* The report of the last call had the enrichment succeeded.
ReportWithEnrichment ==
    analyze_code_file([agent EXCEPT !.code_analysis_pipeline = "ok"],
                      file_call.file_path, file_call.content, file_call.radon)

\* C14: with the enrichment provider absent the enrichment status is
\* not_available, with a failing provider call it is error; in both cases the
\* report is complete and every other field is the one of the report with a
\* successful enrichment.
C14_EnrichmentFailureIsIsolated ==
    FileReported =>
        LET enriched == ReportWithEnrichment
        IN  DOMAIN enriched = FullReportFields =>
        /\ DOMAIN file_report = FullReportFields
        /\ \A f \in FullReportFields \ {"ai_insights"} : file_report[f] = enriched[f]
        /\ agent.code_analysis_pipeline = "None" =>
               file_report.ai_insights.status = "not_available"
        /\ agent.code_analysis_pipeline = "fails" =>
               file_report.ai_insights.status = "error"
        /\ agent.code_analysis_pipeline = "ok" =>
               file_report.ai_insights.status = "analyzed"

\* A complete report of a file with findings, made while the provider call failed.
C14_ProviderFailedReportComplete ==
    /\ FullFileReport
    /\ agent.code_analysis_pipeline = "fails"
    /\ file_report.ai_insights.status = "error"
    /\ file_report.security_issues # <<>>
    /\ file_report.metrics.total_lines = 3

\* issues has no two entries of one rule on one line.
OneMatchPerRuleAndLine(issues) ==
    \A j, k \in 1..Len(issues) :
        (issues[j].name = issues[k].name /\ issues[j].line_number = issues[k].line_number)
            => j = k

\* C15 as stated: the security and the performance scanner report at most one
\* match of a rule on a line.
C15_AtMostOneMatchPerRuleAndLine ==
    FullFileReport =>
        /\ OneMatchPerRuleAndLine(file_report.security_issues)
        /\ OneMatchPerRuleAndLine(file_report.performance_issues)

\* C16 as stated: every match of a file report carries a matched text of at
\* most 100 characters.
C16_MatchedTextAtMost100 ==
    FullFileReport =>
        /\ \A k \in 1..Len(file_report.patterns) : file_report.patterns[k].matched_text <= 100
        /\ \A k \in 1..Len(file_report.security_issues) :
               file_report.security_issues[k].matched_code <= 100

C18_NoOptionalFieldOnProviderFailure ==
    (FullFileReport /\ (\/ ~file_call.radon.available
                        \/ file_call.radon.cc.raises
                        \/ file_call.radon.mi.raises)) =>
        /\ DOMAIN file_report.metrics
               \cap {"average_complexity", "max_complexity", "maintainability_index"} = {}
        /\ \A f \in DOMAIN _calculate_code_metrics(file_call.content) :
               file_report.metrics[f] = _calculate_code_metrics(file_call.content)[f]

\* The language of the i-th file, the number of files of a language, and the
\* position of the first file of a language.
LanguageOf(i) == _detect_file_type(files[i].name)

FilesOfLanguage(t) == Cardinality({i \in 1..Len(files) : LanguageOf(i) = t})

FirstFileOf(t) == CHOOSE i \in 1..Len(files) :
                      LanguageOf(i) = t /\ \A j \in 1..(i - 1) : LanguageOf(j) # t

\* C19: primary_language is a language of the greatest file count; among the
\* languages of that count it is the one whose first file comes earliest in
\* the list; it is 'Unknown' for a project without files.
C19_PrimaryLanguageIsEarliestMaximum ==
    Reported =>
        LET p == project_report.project_overview.primary_language
        IN  IF files = <<>> THEN p = "Unknown"
            ELSE /\ \E i \in 1..Len(files) : LanguageOf(i) = p
                 /\ \A i \in 1..Len(files) :
                        FilesOfLanguage(LanguageOf(i)) <= FilesOfLanguage(p)
                 /\ \A i \in 1..Len(files) :
                        FilesOfLanguage(LanguageOf(i)) = FilesOfLanguage(p)
                            => FirstFileOf(p) <= i

\* A reported project in which two languages tie for the greatest count and
\* the earlier one, which is neither Python nor the last language, is primary.
C19_TieBrokenByFirstFile ==
    /\ Reported
    /\ \E i, j \in 1..Len(files) :
           /\ i < j
           /\ LanguageOf(i) # LanguageOf(j)
           /\ FilesOfLanguage(LanguageOf(i)) = FilesOfLanguage(LanguageOf(j))
           /\ \A k \in 1..Len(files) :
                  FilesOfLanguage(LanguageOf(k)) <= FilesOfLanguage(LanguageOf(i))
           /\ LanguageOf(i) = "TypeScript"
           /\ FirstFileOf("TypeScript") = 1
           /\ project_report.project_overview.primary_language = "TypeScript"

\* Some file name contains the word, whatever the case of its letters.
SomeNameContains(word) ==
    \E i \in 1..Len(files) : NameContains(files[i].name, word)

\* The number of entries of the reported pattern list with the given name.
PatternEntries(name) ==
    Cardinality({k \in 1..Len(project_report.architecture_patterns) :
                    project_report.architecture_patterns[k].name = name})

\* C20: the pattern list has the MVC entry (0.8) exactly when some name
\* contains 'controller', some 'model' and some 'view'; the Microservices
\* entry (0.7) exactly when some name contains 'service' and more than two
\* names contain 'api'; the Repository entry (0.9) exactly when some name
\* contains 'repository'; each check gives at most one entry, independently
\* of the others.
C20_ArchitecturePatternsByFileNames ==
    Reported =>
        LET ps == project_report.architecture_patterns
            apis == Cardinality({i \in 1..Len(files) :
                                    NameContains(files[i].name, "api")})
            Once(b) == IF b THEN 1 ELSE 0
        IN  /\ PatternEntries("Model-View-Controller (MVC)") =
                   Once(/\ SomeNameContains("controller")
                        /\ SomeNameContains("model")
                        /\ SomeNameContains("view"))
            /\ PatternEntries("Microservices Architecture") =
                   Once(SomeNameContains("service") /\ apis > 2)
            /\ PatternEntries("Repository Pattern") =
                   Once(SomeNameContains("repository"))
            /\ \A k \in 1..Len(ps) :
                   ps[k] \in {[name |-> "Model-View-Controller (MVC)", confidence10 |-> 8],
                              [name |-> "Microservices Architecture", confidence10 |-> 7],
                              [name |-> "Repository Pattern", confidence10 |-> 9]}

\* A reported project of three names containing 'api', one of them with a
\* capital letter and one containing 'service', whose only pattern is the
\* Microservices entry.
C20_MicroservicesAlone ==
    /\ Reported
    /\ \E i \in 1..Len(files) : files[i].name = "ApiClient.js"
    /\ \E i \in 1..Len(files) : files[i].name = "api_service.py"
    /\ project_report.architecture_patterns =
           <<[name |-> "Microservices Architecture", confidence10 |-> 7]>>

\* The number of lines of the project: the lines of all its files.
ProjectLineTotal == SumSeq([i \in 1..Len(files) |-> LineCount(files[i].content)])

\* C21: project_size is Small below 1000 lines, Medium from 1000 and below
\* 10000, Large from 10000 and below 100000, Very Large from 100000; every
\* total has exactly one bucket.
C21_ProjectSizeBuckets ==
    Reported =>
        LET size == project_report.project_overview.project_size
            total == ProjectLineTotal
        IN  /\ project_report.project_overview.total_lines_of_code = total
            /\ size \in {"Small", "Medium", "Large", "Very Large"}
            /\ size = "Small" <=> total < 1000
            /\ size = "Medium" <=> (1000 <= total /\ total < 10000)
            /\ size = "Large" <=> (10000 <= total /\ total < 100000)
            /\ size = "Very Large" <=> 100000 <= total

\* A reported project of exactly 1000 lines, which is Medium.
C21_ThousandLinesIsMedium ==
    /\ Reported
    /\ ProjectLineTotal = 1000
    /\ project_report.project_overview.project_size = "Medium"

\* _rate_quality as documented, for a score given in tenths.
DocumentedRating(tenths) ==
    IF tenths >= 800 THEN "Excellent"
    ELSE IF tenths >= 600 THEN "Good"
    ELSE IF tenths >= 400 THEN "Fair"
    ELSE "Poor"

\* C22: quality_rating is the bucket of the reported overall_quality_score:
\* Excellent from 80, Good from 60, Fair from 40, Poor below.
C22_QualityRatingIsBucketOfReportedScore ==
    Reported =>
        project_report.code_quality_summary.quality_rating =
            DocumentedRating(project_report.code_quality_summary.overall_quality_score)

\* A reported project whose score is below 80 before rounding and is reported
\* as 80.0, Excellent.
C22_RoundedUpToExcellent ==
    /\ Reported
    /\ project_report.code_quality_summary.overall_quality_score = 800
    /\ ExactQualityScore.num < 80 * ExactQualityScore.den
    /\ project_report.code_quality_summary.quality_rating = "Excellent"

\* C23: maintainability_rating is the bucket of the reported
\* maintainability_score (the value rounded to one decimal): Excellent from
\* 80, Good from 60, Fair from 40, Poor below.
C23_MaintainabilityRatingIsBucketOfReportedScore ==
    Reported =>
        project_report.maintainability_score.maintainability_rating =
            DocumentedRating(project_report.maintainability_score.maintainability_score)

\* The reports analyze_code_file gives for the files of the project.
FileReportsOf(radon) ==
    [i \in 1..Len(files) |->
        analyze_code_file(agent, files[i].name, files[i].content, radon)]

\* C24: the security and performance totals of the project report equal the
\* sums of the lengths of the security_issues and performance_issues lists
\* of the file reports of the same files, and the totals of the quality
\* summary equal those of the two assessments.
C24_ProjectAgreesWithFileReports ==
    Reported =>
        \A radon \in RadonBehaviours :
            LET reports == FileReportsOf(radon)
                security == project_report.security_assessment.total_issues
                performance == project_report.performance_analysis.total_performance_issues
            IN  /\ \A i \in 1..Len(files) : DOMAIN reports[i] = FullReportFields
                /\ security =
                       SumSeq([i \in 1..Len(files) |-> Len(reports[i].security_issues)])
                /\ performance =
                       SumSeq([i \in 1..Len(files) |-> Len(reports[i].performance_issues)])
                /\ project_report.code_quality_summary.security_issues_count = security
                /\ project_report.code_quality_summary.performance_issues_count = performance

\* A reported project with an empty file and two files that each have
\* security or performance issues, several of one rule among them.
C24_IssuesInSeveralFiles ==
    /\ Reported
    /\ EmptyFiles # {}
    /\ Cardinality({i \in 1..Len(files) :
                       SecurityIssuesOf(files[i].content)
                           + PerformanceIssuesOf(files[i].content) > 0}) = 2
    /\ project_report.security_assessment.total_issues >= 3
    /\ project_report.performance_analysis.total_performance_issues >= 1

\* The fields of a file report that the analysis of the content determines.
AnalysisFields ==
    {"file_type", "metrics", "patterns", "security_issues", "performance_issues",
     "complexity_analysis", "technical_debt"}

Scanned == scan_results # NoReport

\* The lines n-2 through n+2 of a file, clipped at its first and last line.
TwoLinesAround(lines, n) ==
    LET first == Max(1, n - 2)
        last  == Min(Len(lines), n + 2)
    IN  [k \in 1..(last - first + 1) |-> lines[first + k - 1]]

\* The content of the source file of the given path.
ContentAt(path) ==
    source_files[CHOOSE i \in 1..Len(source_files) : source_files[i].relativePath = path].content

\* C26: the context of a match on line n, from either scanner, is the lines
\* n-2 through n+2 of its file, clipped at the first and last line, in order.
C26_ContextIsTwoLinesAround ==
    Scanned =>
        \A m \in 1..Len(scan_results.matches) :
            \A k \in 1..Len(scan_results.matches[m].locations) :
                LET location == scan_results.matches[m].locations[k]
                IN  location.context =
                        TwoLinesAround(ContentAt(location.filePath), location.lineNumber)

\* C30: after scan_source_files every mapping is reported in exactly one of
\* matches and unmatchedFields, and the counters agree:
\* matchedFields + len(unmatchedFields) = totalFields and
\* matchedFields = len(matches).
C30_EveryMappingReportedAndCounted ==
    Scanned =>
        LET mappings == scanner.field_mappings
            Reports(list, combined) ==
                Cardinality({k \in 1..Len(list) : list[k].combined = combined})
            Listed(combined) ==
                Cardinality({m \in 1..Len(mappings) : mappings[m].combined = combined})
        IN  /\ \A m \in 1..Len(mappings) :
                   LET c == mappings[m].combined
                   IN  \/ /\ Reports(scan_results.matches, c) = Listed(c)
                          /\ Reports(scan_results.unmatchedFields, c) = 0
                       \/ /\ Reports(scan_results.matches, c) = 0
                          /\ Reports(scan_results.unmatchedFields, c) = Listed(c)
            /\ Len(scan_results.matches) + Len(scan_results.unmatchedFields) = Len(mappings)
            /\ scan_results.totalFields = Len(mappings)
            /\ scan_results.matchedFields + Len(scan_results.unmatchedFields)
                   = scan_results.totalFields
            /\ scan_results.matchedFields = Len(scan_results.matches)

\* The trimmed text of a line, as characters: two lines of Lines have the
\* same trimmed text when one is the other indented.
SameTrimmedText(l1, l2) ==
    \/ l1 = l2
    \/ {l1, l2} = {"dupl", "idupl"}

\* C27: code_duplication is floor(k / 2), k being the number of non-blank
\* lines whose trimmed text is longer than 20 characters and occurs more than
\* once among the trimmed non-blank lines; shorter lines and lines occurring
\* once do not contribute.
C27_DuplicationIsHalfOfRecurringLongLines ==
    debt_indicators # NoReport =>
        LET content == files[1].content
            nonBlank == {i \in 1..Len(content) : ~IsBlank(content[i])}
            recurring == {i \in nonBlank :
                             /\ StrippedLength(content[i]) > 20
                             /\ \E j \in nonBlank \ {i} :
                                    SameTrimmedText(content[i], content[j])}
        IN  debt_indicators.code_duplication = Cardinality(recurring) \div 2

\* Three lines of one trimmed text of 35 characters, one of them indented:
\* k is 3 and the indicator is 1.
C27_ThreeRecurringLines ==
    /\ debt_indicators # NoReport
    /\ Len(files[1].content) = 3
    /\ \A i \in 1..3 : files[1].content[i] \in {"dupl", "idupl"}
    /\ \E i \in 1..3 : files[1].content[i] = "idupl"
    /\ \E i \in 1..3 : files[1].content[i] = "dupl"
    /\ debt_indicators.code_duplication = 1

\* C28: the line classification of _calculate_code_metrics is a partition:
\* every line is exactly one of blank, comment and code, so
\* code_lines + comment_lines + blank_lines = total_lines.
C28_LineClassesPartitionTheLines ==
    FullFileReport =>
        LET metrics == file_report.metrics
        IN  /\ metrics.total_lines = LineCount(file_call.content)
            /\ metrics.code_lines + metrics.comment_lines + metrics.blank_lines
                   = metrics.total_lines

\* A report of a file with a blank line, a comment and a line of code.
C28_OneLineOfEachClass ==
    /\ FullFileReport
    /\ file_report.metrics.blank_lines = 1
    /\ file_report.metrics.comment_lines = 1
    /\ file_report.metrics.code_lines = 1
    /\ file_report.metrics.total_lines = 3
    /\ \E i \in 1..3 : file_call.content[i] = "ws"
    /\ \E i \in 1..3 : file_call.content[i] = "debt"

\* C29: overall_quality_score is never below 10 (so the clamp at 0 never
\* acts), and it is exactly 100 for a project with no files or only empty
\* files.
C29_QualityScoreAtLeastTen ==
    Reported =>
        LET score == project_report.code_quality_summary.overall_quality_score
        IN  /\ score >= 100
            /\ score <= 1000
            /\ NonEmptyFiles = {} => score = 1000

\* A reported project with more issues and debt than the three caps count:
\* the score is 10.
C29_AllPenaltiesCapped ==
    /\ Reported
    /\ SecurityIssueCount > 6
    /\ PerformanceIssueCount > 7
    /\ DebtTotal >= 100 * Len(files)
    /\ project_report.code_quality_summary.overall_quality_score = 100

=============================================================================
